---- MODULE Spec2Model ----
(***************************************************************************)
(* json-shapes: validation of JSON-like values against shape descriptors.  *)
(* Model of python/jsonshapes/schemacheck.py: the proto-schema compiler    *)
(* (expand), the descriptor classes with their _validate methods, the      *)
(* fault-catching Descriptor.validate wrapper, and the run of the entry    *)
(* point (load a schema, validate one value, exit with 0 or 1).            *)
(*                                                                         *)
(* Python values are tagged records (field k).  Descriptors are records    *)
(* with a field kind (the class).  A validation result is the marker False *)
(* ([e |-> "none"]), a text message ([e |-> "msg"], a prefix and the text  *)
(* concatenated to it), or a Python dict of nested results ([e |-> "map"]).*)
(* A raised exception is [e |-> "raise"].                                  *)
(***************************************************************************)
EXTENDS Integers, Sequences, FiniteSets, TLC

VARIABLES program, pc, proto, t, v, result, exitcode

vars == <<program, pc, proto, t, v, result, exitcode>>

(***************************************************************************)
(* Bounds of the explored universe.                                        *)
(***************************************************************************)
MaxInt == 1
MaxLen == 2

(***************************************************************************)
(* Python values.                                                          *)
(***************************************************************************)
None == [k |-> "null"]
PyBool(b) == [k |-> "bool", b |-> b]
PyInt(n) == [k |-> "int", n |-> n]
\* the float n.0
PyFloat(n) == [k |-> "float", n |-> n]
\* a byte string, as a schema source writes a text literal
PyStr(s) == [k |-> "str", s |-> s]
\* a unicode string; the JSON decoder yields str or unicode for a text, by its version
PyUnicode(s) == [k |-> "unicode", s |-> s]
PyList(xs) == [k |-> "list", xs |-> xs]
\* a dict is a function from its keys (IntKey, StrKey) to values
PyDict(m) == [k |-> "dict", m |-> m]
\* dict keys: integers and texts
IntKey(i) == [i |-> i]
StrKey(s) == [s |-> s]
\* an object of no JSON type and no Descriptor
Opaque == [k |-> "object"]

AbsentValue(name) == [k |-> "absent", name |-> name]

is_absent(x) == x.k = "absent"

\* isinstance(x, Descriptor)
IsDescriptor(x) == "kind" \in DOMAIN x

\* isinstance(x, int): bool is a subclass of int in Python
IsInt(x) == x.k \in {"int", "bool"}

IsFloat(x) == x.k = "float"

\* isinstance(x, str) or isinstance(x, unicode)
IsStr(x) == x.k \in {"str", "unicode"}

\* the characters of the texts the model uses
Chars(s) ==
    CASE s = "" -> <<>>
      [] s = "a" -> <<"a">>
      [] s = "b" -> <<"b">>
      [] s = "ab" -> <<"a", "b">>

\* the numeric value Python compares bool, int and float by
NumVal(x) == IF x.k = "bool" THEN (IF x.b THEN 1 ELSE 0) ELSE x.n

\* x == y as Python evaluates it for a value x and a scalar literal y
PyEq(x, y) ==
    IF is_absent(x) THEN is_absent(y)
    ELSE IF (IsInt(x) \/ IsFloat(x)) /\ (IsInt(y) \/ IsFloat(y)) THEN NumVal(x) = NumVal(y)
    ELSE IF IsStr(x) /\ IsStr(y) THEN x.s = y.s
    ELSE x.k = "null" /\ y.k = "null"

\* str(type(x))
TypeName(x) ==
    CASE x.k = "int" -> "<type 'int'>"
      [] x.k = "float" -> "<type 'float'>"
      [] x.k = "bool" -> "<type 'bool'>"
      [] x.k = "str" -> "<type 'str'>"
      [] x.k = "unicode" -> "<type 'unicode'>"
      [] x.k = "null" -> "<type 'NoneType'>"
      [] x.k = "list" -> "<type 'list'>"
      [] x.k = "dict" -> "<type 'dict'>"
      [] OTHER -> "<type 'instance'>"

\* repr(x) of a scalar literal
Repr(x) ==
    CASE x.k = "int" -> ToString(x.n)
      [] x.k = "float" -> ToString(x.n) \o ".0"
      [] x.k = "bool" -> (IF x.b THEN "True" ELSE "False")
      [] x.k = "str" -> "'" \o x.s \o "'"
      [] x.k = "unicode" -> "u'" \o x.s \o "'"
      [] OTHER -> "None"

\* bool(x) of a value
ValueTruthy(x) ==
    CASE x.k = "null" -> FALSE
      [] x.k = "bool" -> x.b
      [] x.k \in {"int", "float"} -> x.n # 0
      [] IsStr(x) -> x.s # ""
      [] x.k = "list" -> x.xs # <<>>
      [] x.k = "dict" -> DOMAIN x.m # {}
      [] OTHER -> TRUE

\* some enumeration of a finite set: the iteration order of a Python set or dict
SetToSeq(S) == CHOOSE f \in [1..Cardinality(S) -> S] : {f[i] : i \in 1..Cardinality(S)} = S

RECURSIVE Join(_, _)
\* sep.join(xs)
Join(sep, xs) ==
    IF xs = <<>> THEN ""
    ELSE IF Len(xs) = 1 THEN xs[1]
    ELSE xs[1] \o sep \o Join(sep, Tail(xs))

(***************************************************************************)
(* Validation results.                                                     *)
(***************************************************************************)
False == [e |-> "none"]
Msg(text, arg) == [e |-> "msg", text |-> text, arg |-> arg]
Report(m) == [e |-> "map", m |-> m]
Raise(exc) == [e |-> "raise", exc |-> exc]

\* bool(r) of a result: `if intermediate:`
Truthy(r) ==
    CASE r.e = "none" -> FALSE
      [] r.e = "msg" -> (r.text \o r.arg) # ""
      [] r.e = "map" -> DOMAIN r.m # {}
      [] OTHER -> TRUE

\* a dict key as a value, as an iteration over the dict yields it
KeyValue(key) == IF "s" \in DOMAIN key THEN PyStr(key.s) ELSE PyInt(key.i)

\* str(key)
KeyStr(key) == IF "s" \in DOMAIN key THEN key.s ELSE ToString(key.i)

\* iter(x) is defined
Iterable(x) == x.k \in {"list", "str", "unicode", "dict"}

\* the values `for val in x` yields
Items(x) ==
    CASE x.k = "list" -> x.xs
      [] IsStr(x) -> [i \in 1..Len(Chars(x.s)) |-> [k |-> x.k, s |-> Chars(x.s)[i]]]
      [] x.k = "dict" -> [i \in 1..Cardinality(DOMAIN x.m) |-> KeyValue(SetToSeq(DOMAIN x.m)[i])]

\* len(x), for the values that have one
PyLen(x) ==
    CASE x.k = "list" -> Len(x.xs)
      [] IsStr(x) -> Len(Chars(x.s))
      [] x.k = "dict" -> Cardinality(DOMAIN x.m)

\* hash(x) is defined
Hashable(x) == x.k \in {"null", "bool", "int", "float", "str", "unicode"}

IsPrefix(p, s) == Len(p) <= Len(s) /\ SubSeq(s, 1, Len(p)) = p

(***************************************************************************)
(* The descriptor classes: constructors.  Every combinator expands its     *)
(* sub-protos when it is constructed.  The attribute self.t is the field t *)
(* of an Optional or Negation (a descriptor), td of a dict descriptor (a   *)
(* dict of descriptors) and tl of a List descriptor (a list of them).      *)
(***************************************************************************)
RECURSIVE expand(_)
RECURSIVE validate(_, _)

expand_dict(d) == [key \in DOMAIN d |-> expand(d[key])]

expand_list(xs) == [i \in 1..Len(xs) |-> expand(xs[i])]

RegexpDescriptor(pat) == [kind |-> "Regexp", pat |-> pat]
NumberDescriptor == [kind |-> "Number"]
StringDescriptor == [kind |-> "String"]
BooleanDescriptor == [kind |-> "Boolean"]
NonemptyStringDescriptor == [kind |-> "NonemptyString"]
ExactStringDescriptor(literal) == [kind |-> "ExactString", literal |-> literal]
ExactNumberDescriptor(literal) == [kind |-> "ExactNumber", literal |-> literal]
ExactBooleanDescriptor(literal) == [kind |-> "ExactBoolean", literal |-> literal]
ExactNullDescriptor == [kind |-> "ExactNull"]
WildDescriptor == [kind |-> "Wild"]
NegationDescriptor(p) == [kind |-> "Negation", t |-> expand(p)]
MapDescriptor(keyType, valueType) == [kind |-> "Map", keyType |-> expand(keyType), valueType |-> expand(valueType)]
ArrayDescriptor(elementType) == [kind |-> "Array", elementType |-> expand(elementType)]
OptionalDescriptor(p) == [kind |-> "Optional", t |-> expand(p)]
ExtensibleDictDescriptor(d) == [kind |-> "ExtensibleDict", td |-> expand_dict(d)]
ExactDictDescriptor(d) == [kind |-> "ExactDict", td |-> expand_dict(d)]
ListDescriptor(xs) == [kind |-> "List", tl |-> expand_list(xs)]
AndDescriptor(schemas) == [kind |-> "And", schemas |-> expand_list(schemas)]

GeneralAlternationDescriptor(kind, options) == [kind |-> kind, options |-> expand_dict(options)]

\* or_dict(options): options is any value; a non-dict or an empty dict is refused
NamedAlternationDescriptor(options) ==
    IF IsDescriptor(options) \/ ~(options.k = "dict" /\ ValueTruthy(options))
    THEN Raise("InvalidDescriptor")
    ELSE GeneralAlternationDescriptor("NamedAlternation", options.m)

\* _or(*optionlist): the options are keyed by their positions 0..n-1
PositionalAlternationDescriptor(optionlist) ==
    IF optionlist = <<>>
    THEN Raise("InvalidDescriptor")
    ELSE GeneralAlternationDescriptor("PositionalAlternation",
            [key \in {IntKey(i) : i \in 0..(Len(optionlist) - 1)} |-> optionlist[key.i + 1]])

(***************************************************************************)
(* expand: the compiler from proto-schemas to descriptors.                 *)
(***************************************************************************)
Marker == StrKey("_extensible")

\* t.pop("_extensible", False), as a truth value
PopExtensible(m) ==
    IF Marker \in DOMAIN m
    THEN (IF IsDescriptor(m[Marker]) THEN TRUE ELSE ValueTruthy(m[Marker]))
    ELSE FALSE

\* the copy of the dict after the pop
WithoutMarker(m) == [key \in DOMAIN m \ {Marker} |-> m[key]]

\* a faulty variant: an ExtensibleDict descriptor is expanded again from its
\* dict, which no longer holds the marker
expand_Again(p) ==
    IF IsDescriptor(p) THEN (IF p.kind = "ExtensibleDict" THEN ExactDictDescriptor(p.td) ELSE p)
    ELSE IF p.k = "dict" THEN
        (IF PopExtensible(p.m)
         THEN ExtensibleDictDescriptor(WithoutMarker(p.m))
         ELSE ExactDictDescriptor(WithoutMarker(p.m)))
    ELSE IF p.k = "list" THEN ListDescriptor(p.xs)
    ELSE IF IsStr(p) THEN ExactStringDescriptor(p)
    ELSE IF IsInt(p) \/ IsFloat(p) THEN ExactNumberDescriptor(p)
    ELSE IF p.k = "bool" THEN ExactBooleanDescriptor(p)
    ELSE IF p.k = "null" THEN ExactNullDescriptor
    ELSE Raise("InvalidDescriptor")

expand(p) ==
    IF IsDescriptor(p) THEN p
    ELSE IF p.k = "dict" THEN
        (IF PopExtensible(p.m)
         THEN ExtensibleDictDescriptor(WithoutMarker(p.m))
         ELSE ExactDictDescriptor(WithoutMarker(p.m)))
    ELSE IF p.k = "list" THEN ListDescriptor(p.xs)
    ELSE IF IsStr(p) THEN ExactStringDescriptor(p)
    ELSE IF IsInt(p) \/ IsFloat(p) THEN ExactNumberDescriptor(p)
    ELSE IF p.k = "bool" THEN ExactBooleanDescriptor(p)
    ELSE IF p.k = "null" THEN ExactNullDescriptor
    ELSE Raise("InvalidDescriptor")

(***************************************************************************)
(* The _validate method of every class.  A nested descriptor is always     *)
(* called through validate, the fault-catching wrapper.                    *)
(***************************************************************************)
RegexpDescriptor_validate(d, x) ==
    IF ~IsStr(x) THEN Raise("TypeError")
    ELSE IF IsPrefix(Chars(d.pat), Chars(x.s)) THEN False
    ELSE Msg("regexp failed: ", d.pat)

NumberDescriptor_validate(d, x) ==
    IF IsInt(x) \/ IsFloat(x) THEN False ELSE Msg("Expected number", "")

StringDescriptor_validate(d, x) ==
    IF IsStr(x) THEN False ELSE Msg("Expected string", "")

BooleanDescriptor_validate(d, x) ==
    IF x.k = "bool" THEN False ELSE Msg("Expected boolean", "")

NonemptyStringDescriptor_validate(d, x) ==
    IF Truthy(StringDescriptor_validate(d, x)) THEN StringDescriptor_validate(d, x)
    ELSE IF PyLen(x) > 0 THEN False
    ELSE Msg("Expected non-empty string", "")

ExactLiteralValueValidatorMixin_validate(d, x) ==
    IF PyEq(x, d.literal) THEN False
    ELSE IF TypeName(x) # TypeName(d.literal) THEN Msg("Type mismatch: expected ", TypeName(d.literal))
    ELSE Msg("Value mismatch: expected ", Repr(d.literal))

ExactNullDescriptor_validate(d, x) ==
    IF x.k = "null" THEN False ELSE Msg("Expected null", "")

WildDescriptor_validate(d, x) == False

NegationDescriptor_validate(d, x) ==
    IF Truthy(validate(d.t, x)) THEN False ELSE Msg("Negation failed", "")

MapDescriptor_validate(d, x) ==
    IF x.k # "dict" THEN Raise("AttributeError")
    ELSE
        LET keyBad == {key \in DOMAIN x.m : Truthy(validate(d.keyType, KeyValue(key)))}
            valBad == {key \in DOMAIN x.m \ keyBad : Truthy(validate(d.valueType, x.m[key]))}
            keyLabel(key) == StrKey("key " \o KeyStr(key))
            valLabel(key) == StrKey("valueAt " \o KeyStr(key))
            labels == {keyLabel(key) : key \in keyBad} \cup {valLabel(key) : key \in valBad}
            haveResult == keyBad # {} \/ valBad # {}
            res == [l \in labels |->
                      IF \E key \in keyBad : keyLabel(key) = l
                      THEN validate(d.keyType, KeyValue(CHOOSE key \in keyBad : keyLabel(key) = l))
                      ELSE validate(d.valueType, x.m[CHOOSE key \in valBad : valLabel(key) = l])]
        IN  IF haveResult THEN Report(res) ELSE False

\* a faulty variant: `return result`, without the haveResult test
ArrayDescriptor_validate_NoFlag(d, x) ==
    IF ~Iterable(x) THEN Raise("TypeError")
    ELSE
        LET xs == Items(x)
            bad == {i \in 1..Len(xs) : Truthy(validate(d.elementType, xs[i]))}
        IN  Report([key \in {IntKey(i - 1) : i \in bad} |-> validate(d.elementType, xs[key.i + 1])])

ArrayDescriptor_validate(d, x) ==
    IF ~Iterable(x) THEN Raise("TypeError")
    ELSE
        LET xs == Items(x)
            bad == {i \in 1..Len(xs) : Truthy(validate(d.elementType, xs[i]))}
            haveResult == bad # {}
            res == [key \in {IntKey(i - 1) : i \in bad} |-> validate(d.elementType, xs[key.i + 1])]
        IN  IF haveResult THEN Report(res) ELSE False

OptionalDescriptor_validate(d, x) ==
    IF is_absent(x) THEN False ELSE validate(d.t, x)

\* a faulty variant: a failing option is reported although another option matches
GeneralAlternationDescriptor_validate_AllMustPass(d, x) ==
    LET bad == {key \in DOMAIN d.options : Truthy(validate(d.options[key], x))}
    IN  IF bad = {} THEN False ELSE Report([key \in bad |-> validate(d.options[key], x)])

GeneralAlternationDescriptor_validate(d, x) ==
    IF \E key \in DOMAIN d.options : ~Truthy(validate(d.options[key], x))
    THEN False
    ELSE Report([key \in DOMAIN d.options |-> validate(d.options[key], x)])

RECURSIVE AndLoop(_, _, _)
\* the loop over self.schemas from position i
AndLoop(schemas, x, i) ==
    IF i > Len(schemas) THEN False
    ELSE IF Truthy(validate(schemas[i], x)) THEN validate(schemas[i], x)
    ELSE AndLoop(schemas, x, i + 1)

\* a faulty variant: the loop goes on after a failure and returns the last one
AndDescriptor_validate_Last(d, x) ==
    LET bad == {i \in 1..Len(d.schemas) : Truthy(validate(d.schemas[i], x))}
    IN  IF bad = {} THEN False
        ELSE validate(d.schemas[CHOOSE i \in bad : \A j \in bad : j <= i], x)

AndDescriptor_validate(d, x) == AndLoop(d.schemas, x, 1)

\* a faulty variant: v.get(key), which yields None for a missing key
Get_None(x, key) == IF key \in DOMAIN x.m THEN x.m[key] ELSE None

\* v.get(key, AbsentValue(key))
Get(x, key) == IF key \in DOMAIN x.m THEN x.m[key] ELSE AbsentValue(KeyStr(key))

ExtensibleDictDescriptor_validate(d, x) ==
    IF DOMAIN d.td # {} /\ x.k # "dict" THEN Raise("AttributeError")
    ELSE
        LET bad == {key \in DOMAIN d.td : Truthy(validate(d.td[key], Get(x, key)))}
            haveResult == bad # {}
            res == [key \in bad |-> validate(d.td[key], Get(x, key))]
        IN  IF haveResult THEN Report(res) ELSE False

\* the members of set(v)
SetItems(x) ==
    IF x.k = "dict" THEN {KeyValue(key) : key \in DOMAIN x.m}
    ELSE {Items(x)[i] : i \in 1..Len(Items(x))}

\* set(v) - set(self.t)
ExtraKeys(d, x) == {item \in SetItems(x) : \A key \in DOMAIN d.td : ~PyEq(item, KeyValue(key))}

\* a faulty variant: the extraKeys test is left out
ExactDictDescriptor_validate_NoExtraKeys(d, x) == ExtensibleDictDescriptor_validate(d, x)

ExactDictDescriptor_validate(d, x) ==
    IF ~Iterable(x) THEN Raise("TypeError")
    ELSE IF \E item \in SetItems(x) : ~Hashable(item) THEN Raise("TypeError")
    ELSE IF ExtraKeys(d, x) # {} THEN
        (IF \E item \in ExtraKeys(d, x) : ~IsStr(item) THEN Raise("TypeError")
         ELSE Msg("Unexpected properties: ",
                  Join(", ", [i \in 1..Cardinality(ExtraKeys(d, x)) |-> SetToSeq(ExtraKeys(d, x))[i].s])))
    ELSE ExtensibleDictDescriptor_validate(d, x)

\* v[i] for a position i counted from 0
Index(x, i) ==
    IF x.k = "dict" THEN (IF IntKey(i) \in DOMAIN x.m THEN x.m[IntKey(i)] ELSE Raise("KeyError"))
    ELSE Items(x)[i + 1]

ListDescriptor_validate(d, x) ==
    IF ~Iterable(x) THEN Raise(IF is_absent(x) THEN "AttributeError" ELSE "TypeError")
    ELSE IF PyLen(x) # Len(d.tl) THEN Msg("Length mismatch: expected array of length ", ToString(Len(d.tl)))
    ELSE IF \E i \in 1..Len(d.tl) : "e" \in DOMAIN Index(x, i - 1) THEN Raise("KeyError")
    ELSE
        LET bad == {i \in 1..Len(d.tl) : Truthy(validate(d.tl[i], Index(x, i - 1)))}
            haveResult == bad # {}
            pos(key) == CHOOSE i \in bad : ToString(i - 1) = key.s
            res == [key \in {StrKey(ToString(i - 1)) : i \in bad} |->
                        validate(d.tl[pos(key)], Index(x, pos(key) - 1))]
        IN  IF haveResult THEN Report(res) ELSE False

\* self._validate(v): the method of the descriptor's class
Descriptor_validate(d, x) ==
    CASE d.kind = "Regexp" -> RegexpDescriptor_validate(d, x)
      [] d.kind = "Number" -> NumberDescriptor_validate(d, x)
      [] d.kind = "String" -> StringDescriptor_validate(d, x)
      [] d.kind = "Boolean" -> BooleanDescriptor_validate(d, x)
      [] d.kind = "NonemptyString" -> NonemptyStringDescriptor_validate(d, x)
      [] d.kind \in {"ExactString", "ExactNumber", "ExactBoolean"} -> ExactLiteralValueValidatorMixin_validate(d, x)
      [] d.kind = "ExactNull" -> ExactNullDescriptor_validate(d, x)
      [] d.kind = "Wild" -> WildDescriptor_validate(d, x)
      [] d.kind = "Negation" -> NegationDescriptor_validate(d, x)
      [] d.kind = "Map" -> MapDescriptor_validate(d, x)
      [] d.kind = "Array" -> ArrayDescriptor_validate(d, x)
      [] d.kind = "Optional" -> OptionalDescriptor_validate(d, x)
      [] d.kind \in {"NamedAlternation", "PositionalAlternation"} -> GeneralAlternationDescriptor_validate(d, x)
      [] d.kind = "And" -> AndDescriptor_validate(d, x)
      [] d.kind = "ExtensibleDict" -> ExtensibleDictDescriptor_validate(d, x)
      [] d.kind = "ExactDict" -> ExactDictDescriptor_validate(d, x)
      [] d.kind = "List" -> ListDescriptor_validate(d, x)

\* a faulty variant of the except clause: the exception is re-raised
Caught_Reraise(r) == r

\* the except clause of Descriptor.validate
Caught(r) == IF r.e = "raise" THEN Msg("Predicate failed: ", r.exc) ELSE r

\* Descriptor.validate
validate(d, x) == Caught(Descriptor_validate(d, x))

(***************************************************************************)
(* The earlier validator, schemacheck.py at the top of the repository: no  *)
(* compilation step.  A schema is a raw literal (compared with the value   *)
(* by validate itself) or an instance of a Schema class (field schema),    *)
(* which holds its sub-schemas as they were written.                       *)
(***************************************************************************)
\* the sentinel object; v == absent holds for the sentinel alone
absent == AbsentValue("")

\* isinstance(t, Schema)
IsSchema(s) == "schema" \in DOMAIN s

regexp(pat) == [schema |-> "regexp", pat |-> pat]
number == [schema |-> "number"]
string == [schema |-> "string"]
nonempty_string == [schema |-> "nonempty_string"]
anything == [schema |-> "anything"]
_not(s) == [schema |-> "_not", t |-> s]
dictionary(keyType, valueType) == [schema |-> "dictionary", keyType |-> keyType, valueType |-> valueType]
array_of(elementType) == [schema |-> "array_of", elementType |-> elementType]
optional(s) == [schema |-> "optional", t |-> s]
general_or(options) == [schema |-> "general_or", options |-> options]
_and(schemas) == [schema |-> "_and", schemas |-> schemas]

or_dict(options) ==
    IF IsSchema(options) \/ ~(options.k = "dict" /\ ValueTruthy(options))
    THEN Raise("InvalidSchema")
    ELSE general_or(options.m)

_or(optionlist) ==
    IF optionlist = <<>>
    THEN Raise("InvalidSchema")
    ELSE general_or([key \in {IntKey(i) : i \in 0..(Len(optionlist) - 1)} |-> optionlist[key.i + 1]])

RECURSIVE PyDeepEq(_, _)
\* v == t for a value and a raw schema; a Schema instance equals only itself
PyDeepEq(x, s) ==
    IF IsSchema(s) THEN FALSE
    ELSE IF x.k = "list" /\ s.k = "list"
    THEN Len(x.xs) = Len(s.xs) /\ \A i \in 1..Len(x.xs) : PyDeepEq(x.xs[i], s.xs[i])
    ELSE IF x.k = "dict" /\ s.k = "dict"
    THEN DOMAIN x.m = DOMAIN s.m /\ \A key \in DOMAIN x.m : PyDeepEq(x.m[key], s.m[key])
    ELSE IF x.k \in {"list", "dict"} \/ s.k \in {"list", "dict"} THEN FALSE
    ELSE PyEq(x, s)

\* str(t) of a scalar literal
PyStrOf(x) == IF IsStr(x) THEN x.s ELSE Repr(x)

RECURSIVE schemacheck_validate(_, _)

regexp_match(s, x) ==
    IF ~IsStr(x) THEN Raise("TypeError")
    ELSE IF IsPrefix(Chars(s.pat), Chars(x.s)) THEN False
    ELSE Msg("regexp failed: ", s.pat)

number_match(s, x) ==
    IF IsInt(x) \/ IsFloat(x) THEN False ELSE Msg("Expected number", "")

string_match(s, x) ==
    IF IsStr(x) THEN False ELSE Msg("Expected string", "")

nonempty_string_match(s, x) ==
    IF IsStr(x) /\ PyLen(x) > 0 THEN False ELSE Msg("Expected non-empty string", "")

anything_match(s, x) == False

_not_match(s, x) ==
    IF Truthy(schemacheck_validate(x, s.t)) THEN False ELSE Msg("Negation failed", "")

dictionary_match(s, x) ==
    IF x.k # "dict" THEN Raise("AttributeError")
    ELSE
        LET keyBad == {key \in DOMAIN x.m : Truthy(schemacheck_validate(KeyValue(key), s.keyType))}
            valBad == {key \in DOMAIN x.m \ keyBad : Truthy(schemacheck_validate(x.m[key], s.valueType))}
            keyLabel(key) == StrKey("key " \o KeyStr(key))
            valLabel(key) == StrKey("valueAt " \o KeyStr(key))
            labels == {keyLabel(key) : key \in keyBad} \cup {valLabel(key) : key \in valBad}
            haveResult == keyBad # {} \/ valBad # {}
            res == [l \in labels |->
                      IF \E key \in keyBad : keyLabel(key) = l
                      THEN schemacheck_validate(KeyValue(CHOOSE key \in keyBad : keyLabel(key) = l), s.keyType)
                      ELSE schemacheck_validate(x.m[CHOOSE key \in valBad : valLabel(key) = l], s.valueType)]
        IN  IF haveResult THEN Report(res) ELSE False

array_of_match(s, x) ==
    IF ~Iterable(x) THEN Raise("TypeError")
    ELSE
        LET xs == Items(x)
            bad == {i \in 1..Len(xs) : Truthy(schemacheck_validate(xs[i], s.elementType))}
            haveResult == bad # {}
            res == [key \in {IntKey(i - 1) : i \in bad} |-> schemacheck_validate(xs[key.i + 1], s.elementType)]
        IN  IF haveResult THEN Report(res) ELSE False

optional_match(s, x) ==
    IF is_absent(x) THEN False ELSE schemacheck_validate(x, s.t)

general_or_match(s, x) ==
    IF \E key \in DOMAIN s.options : ~Truthy(schemacheck_validate(x, s.options[key]))
    THEN False
    ELSE Report([key \in DOMAIN s.options |-> schemacheck_validate(x, s.options[key])])

RECURSIVE _and_loop(_, _, _)
\* the loop over self.schemas from position i
_and_loop(schemas, x, i) ==
    IF i > Len(schemas) THEN False
    ELSE IF Truthy(schemacheck_validate(x, schemas[i])) THEN schemacheck_validate(x, schemas[i])
    ELSE _and_loop(schemas, x, i + 1)

_and_match(s, x) == _and_loop(s.schemas, x, 1)

\* t.match(v): the method of the schema's class
Schema_match(s, x) ==
    CASE s.schema = "regexp" -> regexp_match(s, x)
      [] s.schema = "number" -> number_match(s, x)
      [] s.schema = "string" -> string_match(s, x)
      [] s.schema = "nonempty_string" -> nonempty_string_match(s, x)
      [] s.schema = "anything" -> anything_match(s, x)
      [] s.schema = "_not" -> _not_match(s, x)
      [] s.schema = "dictionary" -> dictionary_match(s, x)
      [] s.schema = "array_of" -> array_of_match(s, x)
      [] s.schema = "optional" -> optional_match(s, x)
      [] s.schema = "general_or" -> general_or_match(s, x)
      [] s.schema = "_and" -> _and_match(s, x)

\* the dict branch of validate; the keys of both dicts are texts
validate_dict(x, s) ==
    LET declared == DOMAIN s.m \ {Marker}
        extraKeys == DOMAIN x.m \ declared
        bad == {key \in declared : Truthy(schemacheck_validate(IF key \in DOMAIN x.m THEN x.m[key] ELSE absent, s.m[key]))}
        haveResult == bad # {}
        res == [key \in bad |-> schemacheck_validate(IF key \in DOMAIN x.m THEN x.m[key] ELSE absent, s.m[key])]
        extensible == Marker \in DOMAIN s.m /\ (IsSchema(s.m[Marker]) \/ ValueTruthy(s.m[Marker]))
    IN  IF ~extensible /\ extraKeys # {}
        THEN Msg("Unexpected properties: ",
                 Join(", ", [i \in 1..Cardinality(extraKeys) |-> KeyStr(SetToSeq(extraKeys)[i])]))
        ELSE IF haveResult THEN Report(res) ELSE False

\* the list branch of validate
validate_list(x, s) ==
    IF Len(x.xs) # Len(s.xs)
    THEN Msg("Length mismatch: expected array of length ", ToString(Len(s.xs)))
    ELSE
        LET bad == {i \in 1..Len(s.xs) : Truthy(schemacheck_validate(x.xs[i], s.xs[i]))}
            haveResult == bad # {}
            pos(key) == CHOOSE i \in bad : ToString(i - 1) = key.s
            res == [key \in {StrKey(ToString(i - 1)) : i \in bad} |->
                        schemacheck_validate(x.xs[pos(key)], s.xs[pos(key)])]
        IN  IF haveResult THEN Report(res) ELSE False

\* validate(v, t) of the earlier validator
schemacheck_validate(x, s) ==
    IF IsSchema(s) THEN Caught(Schema_match(s, x))
    ELSE IF PyDeepEq(x, s) THEN False
    ELSE IF TypeName(x) # TypeName(s) THEN Msg("Type mismatch: expected ", TypeName(s))
    ELSE IF s.k = "dict" THEN validate_dict(x, s)
    ELSE IF s.k = "list" THEN validate_list(x, s)
    ELSE Msg("Value mismatch: expected ", PyStrOf(s))

(***************************************************************************)
(* Schema sources.  A source is an expression over the constructor         *)
(* vocabulary: a literal, or the call of a name of global_environment.     *)
(* Evaluating it yields a proto-schema, or the constructor's exception.    *)
(***************************************************************************)
Call(name, args) == [call |-> name, args |-> args]

\* global_environment[name](*args) of jsonshapes/schemacheck.py
global_environment(name, args) ==
    CASE name = "regexp" -> RegexpDescriptor(args[1].s)
      [] name = "nonempty_string" -> NonemptyStringDescriptor
      [] name = "dictionary" -> MapDescriptor(args[1], args[2])
      [] name = "array_of" -> ArrayDescriptor(args[1])
      [] name = "optional" -> OptionalDescriptor(args[1])
      [] name = "or_dict" -> NamedAlternationDescriptor(args[1])
      [] name = "number" -> NumberDescriptor
      [] name = "string" -> StringDescriptor
      [] name = "anything" -> WildDescriptor
      [] name = "_not" -> NegationDescriptor(args[1])
      [] name = "_or" -> PositionalAlternationDescriptor(args)
      [] name = "_and" -> AndDescriptor(args)

\* global_environment[name](*args) of the earlier schemacheck.py
schemacheck_global_environment(name, args) ==
    CASE name = "regexp" -> regexp(args[1].s)
      [] name = "nonempty_string" -> nonempty_string
      [] name = "dictionary" -> dictionary(args[1], args[2])
      [] name = "array_of" -> array_of(args[1])
      [] name = "optional" -> optional(args[1])
      [] name = "or_dict" -> or_dict(args[1])
      [] name = "number" -> number
      [] name = "string" -> string
      [] name = "anything" -> anything
      [] name = "_not" -> _not(args[1])
      [] name = "_or" -> _or(args)
      [] name = "_and" -> _and(args)

RECURSIVE Exec(_, _)
\* the value of the source src under the vocabulary of program prog
Exec(prog, src) ==
    IF "call" \in DOMAIN src THEN
        (IF prog = "jsonshapes"
         THEN global_environment(src.call, [i \in 1..Len(src.args) |-> Exec(prog, src.args[i])])
         ELSE schemacheck_global_environment(src.call, [i \in 1..Len(src.args) |-> Exec(prog, src.args[i])]))
    ELSE IF src.k = "list" THEN PyList([i \in 1..Len(src.xs) |-> Exec(prog, src.xs[i])])
    ELSE IF src.k = "dict" THEN PyDict([key \in DOMAIN src.m |-> Exec(prog, src.m[key])])
    ELSE src

(***************************************************************************)
(* The explored universe: schema sources and input values.                 *)
(***************************************************************************)
\* the sequences over S of length lo..hi
SeqsOf(S, lo, hi) == UNION {[1..n -> S] : n \in lo..hi}

\* the dicts with keys among the texts K and values in S
DictsOf(K, S) == UNION {[{StrKey(key) : key \in ks} -> S] : ks \in SUBSET K}

RawScalars ==
    {None, PyBool(TRUE), PyBool(FALSE), PyFloat(1), PyStr("a"), PyStr("ab")}
        \cup {PyInt(n) : n \in 0..MaxInt}

LeafCalls ==
    {Call("number", <<>>), Call("string", <<>>), Call("nonempty_string", <<>>),
     Call("anything", <<>>), Call("regexp", <<PyStr("a")>>)}

Atoms == RawScalars \cup LeafCalls

\* the sources used below dicts and dictionary()
Kids ==
    {Call("number", <<>>), Call("string", <<>>), Call("anything", <<>>),
     PyInt(1), PyStr("a"), PyStr("b"), None}

\* the sources used below _or, _and, or_dict and list literals
SeqKids == {Call("number", <<>>), Call("string", <<>>), PyStr("a"), PyStr("b")}

WithMarker(m, flag) == [key \in DOMAIN m \cup {Marker} |-> IF key = Marker THEN flag ELSE m[key]]

Unary(S) == {Call(name, <<p>>) : name \in {"optional", "_not", "array_of"}, p \in S}

Level1 ==
    Unary(Atoms)
        \cup {Call("dictionary", <<kt, vt>>) :
                kt \in {Call("string", <<>>), PyStr("a"), Call("regexp", <<PyStr("a")>>)}, vt \in Kids}
        \cup {Call(name, ps) : name \in {"_or", "_and"}, ps \in SeqsOf(SeqKids, 0, MaxLen)}
        \cup {PyList(ps) : ps \in SeqsOf(SeqKids, 0, MaxLen)}
        \cup {Call("or_dict", <<PyDict(m)>>) : m \in DictsOf({"x", "y"}, SeqKids)}
        \cup {PyDict(m) : m \in DictsOf({"a", "b"}, Kids)}
        \cup {PyDict(WithMarker(m, PyBool(TRUE))) : m \in DictsOf({"a", "b"}, Kids)}
        \cup {PyDict(WithMarker(m, PyBool(FALSE))) : m \in DictsOf({"a"}, Kids)}

\* the sources nested one level deeper
Core ==
    Unary(Kids) \cup {PyList(<<p>>) : p \in Kids} \cup {PyDict(StrKey("a") :> p) : p \in Kids}

Level2 ==
    Unary(Core)
        \cup {PyList(<<p>>) : p \in Core}
        \cup {PyDict(StrKey("a") :> p) : p \in Core}
        \cup {PyDict(WithMarker(StrKey("a") :> p, PyBool(TRUE))) : p \in Core}
        \cup {Call("_or", <<p, Call("number", <<>>)>>) : p \in Core}
        \cup {Call("_and", <<Call("anything", <<>>), p>>) : p \in Core}

Sources == Atoms \cup Level1 \cup Level2 \cup {Opaque}

Elems == {None, PyBool(TRUE), PyInt(1), PyStr("a"), PyStr("b"), PyUnicode("a")}

JsonScalars ==
    {None, PyBool(TRUE), PyBool(FALSE), PyFloat(1),
     PyStr(""), PyStr("a"), PyStr("b"), PyStr("ab"), PyUnicode("a"), PyUnicode("b"), PyUnicode("ab")}
        \cup {PyInt(n) : n \in 0..MaxInt}

Containers(S, len) ==
    {PyList(xs) : xs \in SeqsOf(S, 0, len)} \cup {PyDict(m) : m \in DictsOf({"a", "b"}, S)}

SmallContainers ==
    {PyList(xs) : xs \in SeqsOf(Elems, 0, 1)} \cup {PyDict(m) : m \in DictsOf({"a"}, Elems)}

\* what json.loads yields
JsonValues ==
    JsonScalars \cup Containers(Elems, MaxLen)
        \cup {PyList(<<x>>) : x \in SmallContainers}
        \cup {PyDict(StrKey("a") :> x) : x \in SmallContainers}

\* what a caller of Descriptor.validate may pass: also the Absent sentinel
\* and a dict whose key is no text
Values == JsonValues \cup {AbsentValue("a"), PyDict(IntKey(0) :> PyInt(1))}

(***************************************************************************)
(* The run of the entry point of either program.                           *)
(***************************************************************************)
Init ==
    /\ program \in {"jsonshapes", "schemacheck"}
    /\ pc = "start"
    /\ proto = None
    /\ t = None
    /\ v = None
    /\ result = False
    /\ exitcode = -1

\* load_schema of jsonshapes: evaluate the source, expand what it defines
load_schema ==
    /\ program = "jsonshapes"
    /\ pc = "start"
    /\ \E src \in Sources :
        /\ proto' = Exec(program, src)
        /\ t' = IF "e" \in DOMAIN proto' THEN proto' ELSE expand(proto')
    /\ pc' = IF "e" \in DOMAIN t' THEN "aborted" ELSE "loaded"
    /\ UNCHANGED <<program, v, result, exitcode>>

\* the main block of jsonshapes: validate a value, exit 1 with the report or 0
Main ==
    /\ program = "jsonshapes"
    /\ pc = "loaded"
    /\ \E x \in Values :
        /\ v' = x
        /\ result' = validate(t, x)
    /\ exitcode' = IF Truthy(result') THEN 1 ELSE 0
    /\ pc' = "exited"
    /\ UNCHANGED <<program, proto, t>>

\* load_schema of the earlier validator: the definitions are used as written
schemacheck_load_schema ==
    /\ program = "schemacheck"
    /\ pc = "start"
    /\ \E src \in Sources \ {Opaque} :
        /\ proto' = Exec(program, src)
        /\ t' = proto'
    /\ pc' = IF "e" \in DOMAIN t' THEN "aborted" ELSE "loaded"
    /\ UNCHANGED <<program, v, result, exitcode>>

\* the main block of the earlier validator
schemacheck_main ==
    /\ program = "schemacheck"
    /\ pc = "loaded"
    /\ \E x \in JsonValues :
        /\ v' = x
        /\ result' = schemacheck_validate(x, t)
    /\ exitcode' = IF Truthy(result') THEN 1 ELSE 0
    /\ pc' = "exited"
    /\ UNCHANGED <<program, proto, t>>

Next == load_schema \/ Main \/ schemacheck_load_schema \/ schemacheck_main

Spec == Init /\ [][Next]_vars

(***************************************************************************)
(* Properties.                                                             *)
(***************************************************************************)
\* a run of jsonshapes has validated v against t
Exited == program = "jsonshapes" /\ pc = "exited"

\* a run of the earlier validator has validated v against t
schemacheck_Exited == program = "schemacheck" /\ pc = "exited"

RECURSIVE NoRaise(_)
\* no raised exception is the result or a part of it
NoRaise(r) ==
    /\ r.e \in {"none", "msg", "map"}
    /\ r.e = "map" => \A key \in DOMAIN r.m : NoRaise(r.m[key])

RECURSIVE NonEmpty(_)
\* an error report with something in it, at every depth
NonEmpty(r) ==
    \/ r.e = "msg" /\ (r.text \o r.arg) # ""
    \/ r.e = "map" /\ DOMAIN r.m # {} /\ \A key \in DOMAIN r.m : NonEmpty(r.m[key])

PredicateFailed(r) == r.e = "msg" /\ r.text = "Predicate failed: "

\* C1: validate returns normally, with False or an error report, for every
\* descriptor and every value; an exception raised by a descriptor's own
\* _validate is caught at that descriptor and becomes the text
\* "Predicate failed: ...", also when the descriptor is nested.
\* The same holds of validate of the earlier validator for the match of a
\* Schema instance.
C1_FaultsAreCaught ==
    /\ Exited =>
        /\ NoRaise(result)
        /\ result = False \/ result.e \in {"msg", "map"}
        /\ exitcode \in {0, 1}
        /\ Descriptor_validate(t, v).e = "raise" => PredicateFailed(result)
        /\ (t.kind = "Array" /\ v.k = "list") =>
              \A i \in 1..Len(v.xs) :
                  Descriptor_validate(t.elementType, v.xs[i]).e = "raise" =>
                      /\ result.e = "map"
                      /\ IntKey(i - 1) \in DOMAIN result.m
                      /\ PredicateFailed(result.m[IntKey(i - 1)])
    /\ schemacheck_Exited =>
        /\ NoRaise(result)
        /\ result = False \/ result.e \in {"msg", "map"}
        /\ exitcode \in {0, 1}
        /\ (IsSchema(t) /\ Schema_match(t, v).e = "raise") => PredicateFailed(result)

\* a scalar where a sequence is expected, and a fault below an Array
C1_Witness ==
    /\ Exited
    /\ t.kind = "Array" /\ t.elementType.kind = "Regexp"
    /\ v.k = "list" /\ Len(v.xs) = 2
    /\ result.e = "map" /\ DOMAIN result.m = {IntKey(0)}
    /\ PredicateFailed(result.m[IntKey(0)])

\* every position of the value a container descriptor looks at passes
AllPass(d, x) ==
    CASE d.kind = "Map" ->
            /\ x.k = "dict"
            /\ \A key \in DOMAIN x.m :
                  /\ ~Truthy(validate(d.keyType, KeyValue(key)))
                  /\ ~Truthy(validate(d.valueType, x.m[key]))
      [] d.kind = "Array" ->
            x.k = "list" /\ \A i \in 1..Len(x.xs) : ~Truthy(validate(d.elementType, x.xs[i]))
      [] d.kind = "ExtensibleDict" ->
            /\ x.k = "dict"
            /\ \A key \in DOMAIN d.td :
                  ~Truthy(validate(d.td[key], IF key \in DOMAIN x.m THEN x.m[key] ELSE AbsentValue("")))
      [] d.kind = "ExactDict" ->
            /\ x.k = "dict"
            /\ DOMAIN x.m \subseteq DOMAIN d.td
            /\ \A key \in DOMAIN d.td :
                  ~Truthy(validate(d.td[key], IF key \in DOMAIN x.m THEN x.m[key] ELSE AbsentValue("")))
      [] d.kind = "List" ->
            /\ x.k = "list"
            /\ Len(x.xs) = Len(d.tl)
            /\ \A i \in 1..Len(d.tl) : ~Truthy(validate(d.tl[i], x.xs[i]))
      [] OTHER -> FALSE

\* C2: the result of validate is False or a non-empty report (a non-empty
\* text, or a dict with at least one entry, at every depth), never an empty
\* dict; a container (Map, Array, ExtensibleDict, ExactDict, List) none of
\* whose positions fails returns False.
C2_NeverEmptyReport ==
    Exited =>
        /\ result = False \/ NonEmpty(result)
        /\ AllPass(t, v) => result = False

\* a container below a container, every child passing
C2_Witness ==
    /\ Exited
    /\ t.kind = "ExactDict" /\ DOMAIN t.td # {}
    /\ \A key \in DOMAIN t.td : t.td[key].kind \in {"Array", "List", "ExactDict"}
    /\ v.k = "dict" /\ DOMAIN v.m = DOMAIN t.td
    /\ \A key \in DOMAIN v.m : v.m[key].k \in {"list", "dict"} /\ ValueTruthy(v.m[key])
    /\ result = False

IsAlternation(d) == d.kind \in {"NamedAlternation", "PositionalAlternation"}

\* C3: an Alternation with N >= 1 options returns False iff some option
\* validates the value without error; otherwise it returns a dict with
\* exactly one entry per option label (the names of or_dict, the positions
\* 0..N-1 of _or), each entry the error that option returned.
C3_Alternation ==
    (Exited /\ IsAlternation(t)) =>
        LET N == Cardinality(DOMAIN t.options)
        IN  /\ N >= 1
            /\ (result = False) <=> (\E key \in DOMAIN t.options : validate(t.options[key], v) = False)
            /\ result # False =>
                  /\ result.e = "map"
                  /\ DOMAIN result.m = DOMAIN t.options
                  /\ Cardinality(DOMAIN result.m) = N
                  /\ \A key \in DOMAIN t.options : result.m[key] = validate(t.options[key], v)
            /\ t.kind = "PositionalAlternation" => DOMAIN t.options = {IntKey(i) : i \in 0..(N - 1)}
            /\ t.kind = "NamedAlternation" => \A key \in DOMAIN t.options : "s" \in DOMAIN key

\* two options, both failing, with different errors
C3_Witness ==
    /\ Exited /\ IsAlternation(t)
    /\ Cardinality(DOMAIN t.options) = 2
    /\ result.e = "map"
    /\ \E k1, k2 \in DOMAIN result.m : result.m[k1] # result.m[k2]

\* the positions of the clauses that fail
FailingClauses(d, x) == {i \in 1..Len(d.schemas) : validate(d.schemas[i], x) # False}

\* C4: a Conjunction returns False iff every clause validates the value
\* without error; otherwise it returns exactly the error of the failing
\* clause of lowest index, whatever the later clauses return.
C4_Conjunction ==
    (Exited /\ t.kind = "And") =>
        /\ (result = False) <=> (FailingClauses(t, v) = {})
        /\ FailingClauses(t, v) # {} =>
              result = validate(t.schemas[CHOOSE i \in FailingClauses(t, v) :
                                              \A j \in FailingClauses(t, v) : i <= j], v)

\* two clauses fail with different errors; the first one's is returned
C4_Witness ==
    /\ Exited /\ t.kind = "And"
    /\ FailingClauses(t, v) = {1, 2}
    /\ validate(t.schemas[1], v) # validate(t.schemas[2], v)
    /\ result = validate(t.schemas[1], v)

\* the dict value x without the keys d does not declare
Declared(d, x) == PyDict([key \in DOMAIN x.m \cap DOMAIN d.td |-> x.m[key]])

\* C5: for a dict value, an ExactDict returns an error whenever the value
\* has a key outside the declared set, even if every declared key
\* validates; an ExtensibleDict returns exactly what it returns for the
\* value cut down to the declared keys.
C5_ExactAndExtensible ==
    (Exited /\ v.k = "dict") =>
        /\ (t.kind = "ExactDict" /\ ~(DOMAIN v.m \subseteq DOMAIN t.td)) =>
              result # False /\ NonEmpty(result)
        /\ t.kind = "ExtensibleDict" => result = validate(t, Declared(t, v))

\* an undeclared key beside a declared key that validates
C5_Witness ==
    /\ Exited /\ t.kind = "ExactDict" /\ v.k = "dict"
    /\ DOMAIN t.td = {StrKey("a")} /\ DOMAIN v.m = {StrKey("a"), StrKey("b")}
    /\ validate(t.td[StrKey("a")], v.m[StrKey("a")]) = False
    /\ result = Msg("Unexpected properties: ", "b")

IsDictDescriptor(d) == d.kind \in {"ExtensibleDict", "ExactDict"}

\* what the descriptor of a declared key must be given for the dict value x
Delivered(x, key) == IF key \in DOMAIN x.m THEN x.m[key] ELSE AbsentValue(KeyStr(key))

\* the entry of every declared key is the result of its descriptor on the
\* value delivered: the value at the key, null included, or Absent
DeliversAbsent ==
    (IsDictDescriptor(t) /\ v.k = "dict" /\ (t.kind = "ExactDict" => DOMAIN v.m \subseteq DOMAIN t.td)) =>
        \A key \in DOMAIN t.td :
            IF validate(t.td[key], Delivered(v, key)) = False
            THEN result = False \/ key \notin DOMAIN result.m
            ELSE /\ result.e = "map"
                 /\ key \in DOMAIN result.m
                 /\ result.m[key] = validate(t.td[key], Delivered(v, key))

\* the classes whose _validate compares the value with a type, a literal or a shape
ShapeKinds ==
    {"Regexp", "Number", "String", "Boolean", "NonemptyString", "ExactString", "ExactNumber",
     "ExactBoolean", "ExactNull", "Map", "Array", "ExactDict", "List"}

\* C6 as stated: a missing declared key is delivered as Absent;
\* Optional(D) returns False for Absent, every descriptor that is not an
\* Optional returns an error for it, and a missing key passes only when its
\* descriptor is an Optional.
C6_OnlyOptionalAcceptsAbsent ==
    Exited =>
        /\ DeliversAbsent
        /\ is_absent(v) => (result = False <=> t.kind = "Optional")
        /\ (IsDictDescriptor(t) /\ v.k = "dict" /\ result = False) =>
              \A key \in DOMAIN t.td \ DOMAIN v.m : t.td[key].kind = "Optional"

\* C6, amended: a missing declared key is delivered as Absent (a key with
\* the value null as null) and passes exactly when its descriptor returns
\* False for Absent.  Optional(D) returns False for Absent for every D; the
\* type, literal and shape descriptors and an ExtensibleDict that declares a
\* key return an error for it; Wild returns False for it, a Negation does
\* iff its inner descriptor returns an error, an Alternation iff some option
\* returns False, a Conjunction iff every clause does.
C6_AbsentAcceptance ==
    Exited =>
        /\ DeliversAbsent
        /\ is_absent(v) =>
              /\ t.kind = "Optional" => result = False
              /\ t.kind \in ShapeKinds => result # False
              /\ (t.kind = "ExtensibleDict" /\ DOMAIN t.td # {}) => result # False
              /\ t.kind = "Wild" => result = False
              /\ t.kind = "Negation" => (result = False <=> validate(t.t, v) # False)
              /\ IsAlternation(t) =>
                    (result = False <=> \E key \in DOMAIN t.options : validate(t.options[key], v) = False)
              /\ t.kind = "And" =>
                    (result = False <=> \A i \in 1..Len(t.schemas) : validate(t.schemas[i], v) = False)

\* a missing key passes below an Optional, a key with the value null does not
C6_Witness ==
    /\ Exited /\ IsDictDescriptor(t)
    /\ DOMAIN t.td = {StrKey("a")} /\ t.td[StrKey("a")].kind = "Optional"
    /\ v.k = "dict"
    /\ validate(t, PyDict(<<>>)) = False
    /\ validate(t, PyDict(StrKey("a") :> None)) # False
    /\ v = PyDict(<<>>) /\ result = False

\* C7: Number returns False iff the value is an int or a float and
\* "Expected number" for every other value, booleans included; so
\* _or(string, number) on true returns {0: "Expected string", 1: "Expected number"}.
C7_NumberRejectsBooleans ==
    Exited =>
        /\ t.kind = "Number" =>
              IF v.k \in {"int", "float"} THEN result = False ELSE result = Msg("Expected number", "")
        /\ (t = PositionalAlternationDescriptor(<<StringDescriptor, NumberDescriptor>>) /\ v = PyBool(TRUE)) =>
              result = Report(IntKey(0) :> Msg("Expected string", "") @@ IntKey(1) :> Msg("Expected number", ""))

\* C8: expand(expand(x)) = expand(x) for every valid proto-schema x: a built
\* descriptor is returned unchanged, and an expanded dict keeps its kind
\* (exact or extensible) and its declared keys when it is expanded again.
C8_ExpandIdempotent ==
    (program = "jsonshapes" /\ pc \in {"loaded", "exited"}) =>
        /\ IsDescriptor(t)
        /\ expand(t) = t
        /\ expand(expand(proto)) = expand(proto)
        /\ IsDescriptor(proto) => t = proto
        /\ (~IsDescriptor(proto) /\ proto.k = "dict") =>
              /\ t.kind = (IF PopExtensible(proto.m) THEN "ExtensibleDict" ELSE "ExactDict")
              /\ DOMAIN t.td = DOMAIN proto.m \ {Marker}
              /\ expand(t).kind = t.kind
              /\ DOMAIN expand(t).td = DOMAIN t.td

\* a dict literal with the marker, compiled to an ExtensibleDict with its two keys
C8_Witness ==
    /\ program = "jsonshapes" /\ pc = "loaded"
    /\ ~IsDescriptor(proto) /\ proto.k = "dict"
    /\ DOMAIN proto.m = {Marker, StrKey("a"), StrKey("b")}
    /\ t.kind = "ExtensibleDict" /\ DOMAIN t.td = {StrKey("a"), StrKey("b")}
    /\ expand(t) = t

\* C9: a List descriptor of n descriptors returns False iff the value is a
\* sequence of exactly n elements with element i validating against
\* descriptor i; a sequence of another length gets the length-mismatch error
\* naming n; a value that is not a sequence never passes.
C9_ListOnlySequences ==
    (Exited /\ t.kind = "List") =>
        /\ (result = False) <=>
              /\ v.k = "list"
              /\ Len(v.xs) = Len(t.tl)
              /\ \A i \in 1..Len(t.tl) : validate(t.tl[i], v.xs[i]) = False
        /\ (v.k = "list" /\ Len(v.xs) # Len(t.tl)) =>
              result = Msg("Length mismatch: expected array of length ", ToString(Len(t.tl)))
        /\ v.k # "list" => result # False

\* The earlier validator reaches its list branch only for a value of the
\* type of the list literal: there a list schema of n schemas passes exactly
\* the sequences of n elements whose element i validates against schema i.
schemacheck_ListOnlySequences ==
    (schemacheck_Exited /\ ~IsSchema(t) /\ t.k = "list") =>
        /\ (result = False) <=>
              /\ v.k = "list"
              /\ Len(v.xs) = Len(t.xs)
              /\ \A i \in 1..Len(t.xs) : schemacheck_validate(v.xs[i], t.xs[i]) = False
        /\ (v.k = "list" /\ Len(v.xs) # Len(t.xs)) =>
              result = Msg("Length mismatch: expected array of length ", ToString(Len(t.xs)))
        /\ v.k # "list" => result # False

\* the earlier validator has rejected a text for a list literal
schemacheck_ListWitness ==
    /\ schemacheck_Exited /\ ~IsSchema(t) /\ t.k = "list" /\ Len(t.xs) = 2
    /\ v = PyStr("ab")
    /\ result.e = "msg" /\ result.text = "Type mismatch: expected "

IsExactLiteral(d) == d.kind \in {"ExactString", "ExactNumber", "ExactBoolean"}

\* the type of a value as the claim speaks of it: text, number, boolean
JsonType(x) ==
    CASE IsStr(x) -> "text"
      [] x.k \in {"int", "float"} -> "number"
      [] OTHER -> x.k

\* the same type and the same value
StrictlyEqual(x, y) ==
    /\ JsonType(x) = JsonType(y)
    /\ IF IsStr(x) THEN x.s = y.s
       ELSE IF JsonType(x) = "number" THEN x.n = y.n
       ELSE x = y

\* C10: a literal descriptor compares with strict types: it returns False
\* iff the value has the literal's type and equals it; a value of another
\* type (a boolean for a number literal, a number for a boolean literal) is
\* a type mismatch, a value of the same type that differs a value mismatch.
C10_StrictLiteral ==
    (Exited /\ IsExactLiteral(t)) =>
        /\ (result = False) <=> StrictlyEqual(v, t.literal)
        /\ JsonType(v) # JsonType(t.literal) =>
              (result.e = "msg" /\ result.text = "Type mismatch: expected ")
        /\ (JsonType(v) = JsonType(t.literal) /\ ~StrictlyEqual(v, t.literal)) =>
              (result.e = "msg" /\ result.text = "Value mismatch: expected ")

====
